---- MODULE Spec2Model ----
\* Model of the Item Fetcher (src/src/composables/useExecutionItems.ts) and of
\* the Status Classifier it depends on (useHealthStatus).
\*
\* One Fetcher instance owns three reactive fields (items, loading, error).
\* fetchItems is an async function: it runs synchronously up to `await fetch`,
\* resumes when the fetch promise settles, runs up to `await response.json()`,
\* and resumes once more when that promise settles.  Each of these synchronous
\* stretches is one action; several loads may be suspended at the same time.
\*
\* Spec is the Fetcher alone; SpecWithConsumer adds a consumer that tries to
\* write through the returned refs; SpecClassifier calls the functions of the
\* Status Classifier on their own; SpecPagination calls the pagination
\* helpers of ExecutionItemsApiResponse; SpecSort runs the sorting example of
\* TableSortConfig; FairSpec is the Fetcher whose requests are all answered.
EXTENDS Integers, Sequences, FiniteSets, TLC

\* ------------------------------------------------------------------ bounds
\* Longest items array a response body carries.
MaxItems == 2
\* Number of fetchItems() calls made in one behaviour (mount + refetches).
MaxLoads == 2
\* Largest total, page number and page size of a response handed to the
\* pagination helpers.
MaxTotal == 4
MaxPage == 3
MaxLimit == 2
\* Longest array handed to sortExecutionItems.
MaxRows == 3

\* ------------------------------------------------------------------ values
\* An optional value: None is JavaScript's null/undefined, Some(v) holds v.
None == <<>>
Some(v) == <<v>>

\* A JavaScript value as JSON.parse can produce it (plus undefined for an
\* absent property): its type tag, the text of a primitive, array elements.
JsVal(t, s, elems) == [t |-> t, s |-> s, elems |-> elems]
JsUndefined == JsVal("undefined", "", <<>>)
JsNull == JsVal("null", "", <<>>)
JsString(s) == JsVal("string", s, <<>>)
JsNumber(s) == JsVal("number", s, <<>>)
JsBoolean(s) == JsVal("boolean", s, <<>>)
JsObject == JsVal("object", "", <<>>)
JsArray(elems) == JsVal("array", "", elems)

\* JavaScript truthiness, as `!v` evaluates it.
Falsy(v) ==
    \/ v.t \in {"undefined", "null"}
    \/ v.t = "string" /\ v.s = ""
    \/ v.t = "number" /\ v.s \in {"0", "NaN"}
    \/ v.t = "boolean" /\ v.s = "false"

IsArray(v) == v.t = "array"

\* A thrown value: an Error with a message, or something that is not an Error.
ErrorOf(m) == [isError |-> TRUE, message |-> m]
NonError == [isError |-> FALSE, message |-> ""]

\* --------------------------------------------------------- response bodies
\* Elements of a response's items array.  An object carries the fields of an
\* ExecutionItem (moduleName stands for the five free-text fields, which the
\* code treats alike); healthStatus is whatever the server sent.
ElemNull == [t |-> "null", moduleName |-> None, healthStatus |-> None]
ElemObject(m, h) == [t |-> "object", moduleName |-> Some(m), healthStatus |-> h]

Elements ==
    { ElemNull,
      ElemObject("Authentication Module", Some("on-track")),
      ElemObject("Legacy Module", Some("blocked")) }

SeqsUpTo(S, n) == UNION { [1..k -> S] : k \in 0..n }

\* Values of the body's `items` property.
ItemsValues ==
    { JsUndefined, JsNull, JsString(""), JsString("not-an-array"),
      JsNumber("0"), JsNumber("5"), JsBoolean("true"), JsObject }
    \cup { JsArray(es) : es \in SeqsUpTo(Elements, MaxItems) }

\* A parsed body: its own type and, for an object, its `items` property.
Body(t, its) == [t |-> t, items |-> its]
Bodies ==
    { Body(t, JsUndefined) : t \in {"null", "number", "string", "array"} }
    \cup { Body("object", v) : v \in ItemsValues }

\* data.items: reading a property of null throws a TypeError; a primitive or
\* an array has no `items` property.
GetItems(data) ==
    IF data.t = "null"
    THEN [thrown |-> TRUE,
          err |-> ErrorOf("Cannot read properties of null (reading 'items')"),
          val |-> JsUndefined]
    ELSE [thrown |-> FALSE, err |-> NonError,
          val |-> IF data.t = "object" THEN data.items ELSE JsUndefined]

\* ------------------------------------------------------- Status Classifier
\* Array.prototype.includes on an array of strings.
Includes(arr, v) == \E k \in 1..Len(arr) : arr[k] = v

\* isValidStatus with a bug: the value is lower-cased before the test.
isValidStatusIgnoringCase(value) ==
    \/ Includes(<<"on-track", "at-risk", "off-track">>, value)
    \/ value \in {"ON-TRACK", "On-Track", "AT-RISK", "OFF-TRACK"}

isValidStatus(value) == Includes(<<"on-track", "at-risk", "off-track">>, value)

getAllStatuses == <<"on-track", "at-risk", "off-track">>

\* The type guard of the type tests, written with === on each literal.
isValidHealthStatus(status) ==
    status = "on-track" \/ status = "at-risk" \/ status = "off-track"

\* lines 31-50
HEALTH_STATUS_CONFIG ==
    [status \in {"on-track", "at-risk", "off-track"} |->
        CASE status = "on-track" ->
               [label |-> "On Track", color |-> "#0ed183",
                backgroundColor |-> "#eefbf2", severity |-> "success"]
          [] status = "at-risk" ->
               [label |-> "At Risk", color |-> "#ff514e",
                backgroundColor |-> "#ffefed", severity |-> "error"]
          [] status = "off-track" ->
               [label |-> "Off Track", color |-> "#ffab26",
                backgroundColor |-> "#fff7ed", severity |-> "warning"]]

\* getStatusConfig with a bug: the entries of at-risk and off-track are
\* exchanged.
getStatusConfigExchanged(status) ==
    HEALTH_STATUS_CONFIG[CASE status = "at-risk" -> "off-track"
                           [] status = "off-track" -> "at-risk"
                           [] OTHER -> status]

getStatusConfig(status) == HEALTH_STATUS_CONFIG[status]

\* classifyStatus with a bug: a rule of its own overrides the item's status.
classifyStatusEscalating(item) ==
    [thrown |-> FALSE, err |-> NonError,
     val |-> IF item.healthStatus = Some("at-risk") THEN Some("off-track")
             ELSE item.healthStatus]

\* classifyStatus with a bug: a status outside the enumeration is replaced.
classifyStatusDefaulting(item) ==
    IF item.t = "null"
    THEN [thrown |-> TRUE,
          err |-> ErrorOf("Cannot read properties of null (reading 'healthStatus')"),
          val |-> None]
    ELSE [thrown |-> FALSE, err |-> NonError,
          val |-> IF item.healthStatus # None /\ isValidStatus(item.healthStatus[1])
                  THEN item.healthStatus ELSE Some("at-risk")]

\* classifyStatus returns item.healthStatus; reading it off null throws.
classifyStatus(item) ==
    IF item.t = "null"
    THEN [thrown |-> TRUE,
          err |-> ErrorOf("Cannot read properties of null (reading 'healthStatus')"),
          val |-> None]
    ELSE [thrown |-> FALSE, err |-> NonError, val |-> item.healthStatus]

\* SpreadWithStatus with a bug: the item is not spread, so only the status
\* is kept.
StatusOnly(item, status) ==
    [moduleName |-> None, healthStatus |-> status]

\* { ...item, healthStatus: status }: the own properties of item (none for
\* null or a number) with healthStatus overwritten.
SpreadWithStatus(item, status) ==
    [moduleName |-> item.moduleName, healthStatus |-> status]

\* The indices of a tail, as indices of the whole array.
Shifted(calls) == [k \in 1..Len(calls) |-> calls[k] + 1]

\* MapItems with a bug: the elements before the one that throws are kept and
\* the throw is swallowed.
RECURSIVE MapItemsUpToThrow(_)
MapItemsUpToThrow(elems) ==
    IF elems = <<>>
    THEN [thrown |-> FALSE, err |-> NonError, val |-> <<>>, calls |-> <<>>]
    ELSE IF classifyStatus(Head(elems)).thrown
    THEN [thrown |-> FALSE, err |-> NonError, val |-> <<>>, calls |-> <<1>>]
    ELSE [thrown |-> FALSE, err |-> NonError,
          val |-> <<SpreadWithStatus(Head(elems), classifyStatus(Head(elems)).val)>>
                  \o MapItemsUpToThrow(Tail(elems)).val,
          calls |-> <<1>> \o Shifted(MapItemsUpToThrow(Tail(elems)).calls)]

\* data.items.map(item => ({...item, healthStatus: classifyStatus(item)})):
\* elements are processed left to right; a throw abandons the whole map.
\* calls lists the indices classifyStatus was called on, in call order.
RECURSIVE MapItems(_)
MapItems(elems) ==
    IF elems = <<>>
    THEN [thrown |-> FALSE, err |-> NonError, val |-> <<>>, calls |-> <<>>]
    ELSE LET c == classifyStatus(Head(elems))
         IN  IF c.thrown
             THEN [thrown |-> TRUE, err |-> c.err, val |-> <<>>, calls |-> <<1>>]
             ELSE LET rest == MapItems(Tail(elems))
                  IN  IF rest.thrown
                      THEN [rest EXCEPT !.calls = <<1>> \o Shifted(@)]
                      ELSE [thrown |-> FALSE, err |-> NonError,
                            val |-> <<SpreadWithStatus(Head(elems), c.val)>> \o rest.val,
                            calls |-> <<1>> \o Shifted(rest.calls)]

\* ------------------------------------------------------------ configuration
\* import.meta.env: each variable is unset (None) or a string.
BaseUrls == { None, Some(""), Some("http://localhost:3000") }
Endpoints == { None, Some(""), Some("/api/v1/execution-items") }
Envs == [baseUrl : BaseUrls, endpoint : Endpoints]

\* a || b on an optional string: b when a is undefined or empty.
OrElse(a, b) == IF a = None \/ a = Some("") THEN b ELSE a[1]

\* getApiConfig with a bug: the environment is read once, when the module is
\* loaded, and that configuration is kept.
getApiConfigAtStartup(e) ==
    [baseUrl |-> "http://localhost:3000", endpoint |-> "/api/execution-items",
     fullUrl |-> "http://localhost:3000/api/execution-items"]

\* getApiConfig with a bug: the endpoint has no default.
getApiConfigWithoutDefault(e) ==
    LET baseUrl == OrElse(e.baseUrl, "")
        endpoint == OrElse(e.endpoint, "")
    IN  [baseUrl |-> baseUrl, endpoint |-> endpoint, fullUrl |-> baseUrl \o endpoint]

\* lines 10-19
getApiConfig(e) ==
    LET baseUrl == OrElse(e.baseUrl, "")
        endpoint == OrElse(e.endpoint, "/api/execution-items")
    IN  [baseUrl |-> baseUrl, endpoint |-> endpoint, fullUrl |-> baseUrl \o endpoint]

ConfigError ==
    ErrorOf("API endpoint not configured. Please set VITE_API_BASE_URL and VITE_API_EXECUTION_ITEMS_ENDPOINT environment variables.")

\* ------------------------------------------------------------------ network
\* What the fetch promise settles with: a rejection, or a Response.
Statuses == { 200, 299, 300, 404 }
StatusTexts == { "", "Not Found" }
NetworkFailures == { ErrorOf("Failed to fetch"), NonError }

FetchResults ==
    { [rejected |-> TRUE, err |-> e, status |-> 0, statusText |-> ""] : e \in NetworkFailures }
    \cup { [rejected |-> FALSE, err |-> NonError, status |-> s, statusText |-> t] :
             s \in Statuses, t \in StatusTexts }

\* Response.ok
ResponseOk(status) == status >= 200 /\ status <= 299

\* HttpErrorMessage with a bug: the status text is left out.
HttpErrorMessageWithoutText(status, statusText) ==
    "Failed to fetch execution items: " \o ToString(status)

HttpErrorMessage(status, statusText) ==
    "Failed to fetch execution items: " \o ToString(status) \o " " \o statusText

\* What response.json() settles with: a SyntaxError, or the parsed body.
ParseError == ErrorOf("Unexpected end of JSON input")
JsonResults ==
    { [rejected |-> TRUE, err |-> ParseError, data |-> Body("null", JsUndefined)] }
    \cup { [rejected |-> FALSE, err |-> NonError, data |-> d] : d \in Bodies }

ValidationError == ErrorOf("Invalid API response: missing or invalid \"items\" array")
UnknownErrorMessage == "Unknown error occurred while fetching execution items"

\* -------------------------------------------------------------------- state
VARIABLES
    items,        \* ref<ExecutionItem[]>: the normalized items shown
    loading,      \* ref<boolean>
    error,        \* ref<string | null>: None or Some(message)
    loads,        \* one record per fetchItems() call, in call order
    mounted,      \* whether the onMounted hook has run
    writes,       \* what the last step did, in program order
    lastSuccess,  \* history: the response items, normalized, of the most
                  \* recently completed successful load
    prevResponse, \* history: the response items, as received, of the most
                  \* recently completed load when that load succeeded
    last,         \* history: what the last step completed, if anything
    call,         \* history: the last call of a Status Classifier function
    arrays,       \* the ExecutionItem arrays of the sorting example, by reference
    sorted        \* what the sorting example holds: one record per result

vars == <<items, loading, error, loads, mounted, writes, lastSuccess, prevResponse, last, call,
          arrays, sorted>>

\* The three refs as one record, with the log of the running step.
State(its, ld, er) == [items |-> its, loading |-> ld, error |-> er, writes |-> <<>>]
Cur == State(items, loading, error)
\* lines 113-115: the refs as constructed
Constructed == State(<<>>, FALSE, None)

\* -------------------------------------------------------- fetchItems blocks
\* BeginFetch with a bug: the list is cleared when a load starts.
BeginFetchClearingItems(st) ==
    [st EXCEPT !.loading = TRUE, !.error = None, !.items = <<>>,
               !.writes = @ \o <<"loading=true", "error=null", "items">>]

\* lines 142-143
BeginFetch(st) ==
    [st EXCEPT !.loading = TRUE, !.error = None,
               !.writes = @ \o <<"loading=true", "error=null">>]

\* lines 195-197
\* ErrorMessage with a bug: the fixed text replaces every failure's message.
ErrorMessageAlwaysFixed(err) == UnknownErrorMessage
ErrorMessage(err) == IF err.isError THEN err.message ELSE UnknownErrorMessage

\* CatchBlock with a bug: the items are not reset.
CatchBlockKeepingItems(st, err) ==
    [st EXCEPT !.error = Some(ErrorMessage(err)), !.writes = @ \o <<"error">>]

\* lines 193-204: the catch block
CatchBlock(st, err) ==
    [st EXCEPT !.error = Some(ErrorMessage(err)), !.items = <<>>,
               !.writes = @ \o <<"error", "items">>]

\* FinallyBlock with a bug: loading is not reset.
FinallyBlockSkipped(st) == st

\* lines 205-207: the finally block
FinallyBlock(st) ==
    [st EXCEPT !.loading = FALSE, !.writes = Append(@, "loading=false")]

\* Results of a stretch of the try body: it threw err, or it reached an
\* await (suspended), or it ran to the end of the try body.
Threw(st, err) == [st |-> st, thrown |-> TRUE, err |-> err, suspended |-> FALSE]
Awaits(st) == [st |-> st, thrown |-> FALSE, err |-> NonError, suspended |-> TRUE]
Finished(st) == [st |-> st, thrown |-> FALSE, err |-> NonError, suspended |-> FALSE]

\* lines 146-165: from the start of the try body to `await fetch(...)`
TryToFetch(st, e) ==
    IF getApiConfig(e).fullUrl = ""
    THEN Threw(st, ConfigError)
    ELSE Awaits([st EXCEPT !.writes = Append(@, "fetch")])

\* lines 156-175: from the settling of fetch to `await response.json()`
TryToJson(st, res) ==
    IF res.rejected THEN Threw(st, res.err)
    ELSE IF ~ResponseOk(res.status)
    THEN Threw(st, ErrorOf(HttpErrorMessage(res.status, res.statusText)))
    ELSE Awaits([st EXCEPT !.writes = Append(@, "json")])

\* The log entries of the classifyStatus calls of one map.
ClassifyLog(calls) == [k \in 1..Len(calls) |-> "classifyStatus " \o ToString(calls[k])]

\* TryToEnd with a bug: the new items are appended to the list shown.
TryToEndAppending(st, res) ==
    IF res.rejected THEN Threw(st, res.err)
    ELSE LET its == GetItems(res.data)
         IN  IF its.thrown THEN Threw(st, its.err)
             ELSE IF Falsy(its.val) \/ ~IsArray(its.val)
             THEN Threw(st, ValidationError)
             ELSE LET mapped == MapItems(its.val.elems)
                      classified == [st EXCEPT !.writes = @ \o ClassifyLog(mapped.calls)]
                  IN  IF mapped.thrown THEN Threw(classified, mapped.err)
                      ELSE Finished([classified EXCEPT !.items = @ \o mapped.val,
                                                       !.writes = Append(@, "items")])

\* lines 175-192: from the settling of response.json() to the end of the try
TryToEnd(st, res) ==
    IF res.rejected THEN Threw(st, res.err)
    ELSE LET its == GetItems(res.data)
         IN  IF its.thrown THEN Threw(st, its.err)
             ELSE IF Falsy(its.val) \/ ~IsArray(its.val)
             THEN Threw(st, ValidationError)
             ELSE LET mapped == MapItems(its.val.elems)
                      classified == [st EXCEPT !.writes = @ \o ClassifyLog(mapped.calls)]
                  IN  IF mapped.thrown THEN Threw(classified, mapped.err)
                      ELSE Finished([classified EXCEPT !.items = mapped.val,
                                                       !.writes = Append(@, "items")])

\* TryCatchFinally with a bug: there is no catch block, so what the try body
\* throws leaves fetchItems and rejects its promise.
TryFinallyOnly(r) ==
    [st |-> FinallyBlock(r.st), pc |-> IF r.thrown THEN "rejected" ELSE "fulfilled"]

\* TryCatchFinally with a bug: loading is reset before the catch block runs.
FinallyThenCatch(r) ==
    IF r.thrown
    THEN [st |-> CatchBlock(FinallyBlock(r.st), r.err), pc |-> "fulfilled"]
    ELSE [st |-> FinallyBlock(r.st), pc |-> "fulfilled"]

\* lines 145-208: try / catch / finally around a stretch that did not suspend.
\* The catch block swallows what was thrown, so the promise is fulfilled.
TryCatchFinally(r) ==
    IF r.thrown
    THEN [st |-> FinallyBlock(CatchBlock(r.st, r.err)), pc |-> "fulfilled"]
    ELSE [st |-> FinallyBlock(r.st), pc |-> "fulfilled"]

\* A stretch either suspends at the await named by `next` or settles the promise.
Resume(r, next) ==
    IF r.suspended THEN [st |-> r.st, pc |-> next] ELSE TryCatchFinally(r)

InFlight(l) == l.pc \in {"awaitFetch", "awaitJson"}
Settled(l) == l.pc \in {"fulfilled", "rejected"}
AnyInFlight == \E i \in 1..Len(loads) : InFlight(loads[i])

\* ------------------------------------------------------------------ history
\* Whether a body carries an items sequence, and that sequence normalized:
\* every element with its healthStatus replaced by the classifier's answer.
HasItemsSequence(data) == data.t = "object" /\ data.items.t = "array"
ItemsOf(data) == IF HasItemsSequence(data) THEN data.items.elems ELSE <<>>
Normalized(elems) ==
    [i \in 1..Len(elems) |->
        [moduleName |-> elems[i].moduleName, healthStatus |-> elems[i].healthStatus]]

Refs(st) == [items |-> st.items, loading |-> st.loading, error |-> st.error]

NoLast ==
    [done |-> 0, stage |-> "none", thrown |-> FALSE, err |-> NonError,
     rejected |-> FALSE, status |-> 0, statusText |-> "",
     hasSeq |-> FALSE, n |-> 0, allObjects |-> FALSE, elems |-> <<>>,
     repeat |-> FALSE,
     env |-> [baseUrl |-> None, endpoint |-> None], method |-> "", url |-> None,
     alone |-> Refs(Constructed)]

\* The record of a step of a load: the load it settled (done, 0 when the load
\* went on to its next await), the await it resumed from (stage), what that
\* await delivered, whether the try body threw and what, the response's items
\* as received when the load succeeded (elems), whether the load succeeded
\* without overlap right after a successful load that received the same items
\* (repeat), and the refs the
\* same load would have left had it run alone on a freshly constructed Fetcher.
Completed(id, stage, t, rejected, status, statusText, data, aloneSt) ==
    [done |-> id, stage |-> stage, thrown |-> t.thrown, err |-> t.err,
     rejected |-> rejected, status |-> status, statusText |-> statusText,
     hasSeq |-> HasItemsSequence(data), n |-> Len(ItemsOf(data)),
     allObjects |-> HasItemsSequence(data) /\
                    \A k \in 1..Len(ItemsOf(data)) : ItemsOf(data)[k].t = "object",
     elems |-> IF t.thrown THEN <<>> ELSE ItemsOf(data),
     repeat |-> FALSE,
     env |-> [baseUrl |-> None, endpoint |-> None], method |-> "", url |-> None,
     alone |-> Refs(aloneSt)]

\* The record of the step that starts a load and sends its request: the
\* environment fetchItems read (env) and lines 156-157, the method and the URL
\* handed to fetch.
Started(e) ==
    [NoLast EXCEPT !.stage = "start", !.env = e, !.method = "GET",
                   !.url = Some(getApiConfig(e).fullUrl)]

\* The number of HTTP requests a step issued.
Requested(st) == Cardinality({ k \in 1..Len(st.writes) : st.writes[k] = "fetch" })

NoBody == Body("null", JsUndefined)

\* The record of a call: the function, its argument, what it returned and
\* the argument as the call left it.
Called(fn, arg, result, argAfter) ==
    [fn |-> fn, arg |-> arg, result |-> result, argAfter |-> argAfter]
NoCall == Called("none", <<>>, <<>>, <<>>)

\* ------------------------------------------------------------------ actions
\* In each action t is the result of the stretch of the try body the step
\* runs and r what try/catch/finally makes of it, each computed once.
Init ==
    /\ items = <<>>
    /\ loading = FALSE
    /\ error = None
    /\ loads = <<>>
    /\ mounted = FALSE
    /\ writes = <<>>
    /\ lastSuccess = <<>>
    /\ prevResponse = None
    /\ last = NoLast
    /\ call = NoCall
    /\ arrays = <<>>
    /\ sorted = <<>>

Apply(st) ==
    /\ items' = st.items
    /\ loading' = st.loading
    /\ error' = st.error
    /\ writes' = st.writes

\* fetchItems() is called while import.meta.env holds e (the environment is
\* read at each call and may hold anything then): lines 141-165, and the
\* catch/finally when the configuration check throws.
fetchItems(by, e) ==
    /\ Len(loads) < MaxLoads
    /\ \E t \in {TryToFetch(BeginFetch(Cur), e)} : \E r \in {Resume(t, "awaitFetch")} :
       LET id == Len(loads) + 1
           aloneSt == Resume(TryToFetch(BeginFetch(Constructed), e), "awaitFetch").st
           marked == [i \in 1..Len(loads) |->
                        IF InFlight(loads[i])
                        THEN [loads[i] EXCEPT !.overlapped = TRUE]
                        ELSE loads[i]]
       IN  /\ Apply(r.st)
           /\ loads' = Append(marked,
                              [pc |-> r.pc, by |-> by, overlapped |-> AnyInFlight,
                               requests |-> Requested(r.st)])
           /\ last' = IF r.pc = "awaitFetch" THEN Started(e)
                      ELSE Completed(id, "config", t, FALSE, 0, "", NoBody, aloneSt)
           /\ prevResponse' = IF r.pc = "awaitFetch" THEN prevResponse ELSE None
    /\ UNCHANGED <<lastSuccess, call, arrays, sorted>>

\* OnMounted with a bug: the hook is registered for every render, so the
\* automatic load starts again each time it runs.
OnMountedEveryRender ==
    /\ mounted' = TRUE
    /\ \E e \in Envs : fetchItems("mount", e)

\* lines 229-231: the mounted hook starts the automatic load
OnMounted ==
    /\ ~mounted
    /\ mounted' = TRUE
    /\ \E e \in Envs : fetchItems("mount", e)

\* lines 224-226
Refetch ==
    /\ \E e \in Envs : fetchItems("refetch", e)
    /\ UNCHANGED mounted

\* The fetch promise of load i settles with res: lines 156-175, and the
\* catch/finally when it rejected or the status is not ok.
FetchSettles(i, res) ==
    /\ loads[i].pc = "awaitFetch"
    /\ \E t \in {TryToJson(Cur, res)} : \E r \in {Resume(t, "awaitJson")} :
       LET aloneSt == Resume(TryToJson(BeginFetch(Constructed), res), "awaitJson").st
       IN  /\ Apply(r.st)
           /\ loads' = [loads EXCEPT ![i].pc = r.pc, ![i].requests = @ + Requested(r.st)]
           /\ last' = Completed(IF r.pc = "awaitJson" THEN 0 ELSE i, "fetch", t,
                                res.rejected, res.status, res.statusText,
                                NoBody, aloneSt)
           /\ prevResponse' = IF r.pc = "awaitJson" THEN prevResponse ELSE None
    /\ UNCHANGED <<mounted, lastSuccess, call, arrays, sorted>>

\* The response.json() promise of load i settles with res: lines 175-192,
\* then the catch and finally blocks.
JsonSettles(i, res) ==
    /\ loads[i].pc = "awaitJson"
    /\ \E t \in {TryToEnd(Cur, res)} : \E r \in {Resume(t, "awaitNothing")} :
       LET aloneSt == Resume(TryToEnd(BeginFetch(Constructed), res), "awaitNothing").st
       IN  /\ Apply(r.st)
           /\ loads' = [loads EXCEPT ![i].pc = r.pc, ![i].requests = @ + Requested(r.st)]
           /\ last' = [Completed(i, "json", t, res.rejected, 200, "", res.data, aloneSt)
                        EXCEPT !.repeat = /\ ~t.thrown
                                          /\ ~loads[i].overlapped
                                          /\ prevResponse = Some(ItemsOf(res.data))]
           /\ lastSuccess' = IF t.thrown THEN lastSuccess
                             ELSE Normalized(ItemsOf(res.data))
           /\ prevResponse' = IF t.thrown THEN None ELSE Some(ItemsOf(res.data))
    /\ UNCHANGED <<mounted, call, arrays, sorted>>

Next ==
    \/ OnMounted
    \/ Refetch
    \/ \E i \in 1..Len(loads), res \in FetchResults : FetchSettles(i, res)
    \/ \E i \in 1..Len(loads), res \in JsonResults : JsonSettles(i, res)

Spec == Init /\ [][Next]_vars

\* One outcome of each kind fetchItems tells apart: of the fetch promise, a
\* rejection, a status that is not ok and one that is; of response.json(), a
\* rejection, a null body, a body without items, an array holding null, an
\* empty array and an array of one work item.
FetchOutcomes ==
    { res \in FetchResults :
        \/ res.rejected /\ res.err.isError
        \/ ~res.rejected /\ res.status \in {200, 404} /\ res.statusText = "" }
JsonOutcomes ==
    { res \in JsonResults :
        \/ res.rejected
        \/ ~res.rejected /\ res.data.t = "null"
        \/ ~res.rejected /\ res.data.t = "object" /\ res.data.items = JsUndefined
        \/ ~res.rejected /\ HasItemsSequence(res.data) /\ Len(ItemsOf(res.data)) = 0
        \/ ~res.rejected /\ HasItemsSequence(res.data) /\ Len(ItemsOf(res.data)) = 1
             /\ ItemsOf(res.data)[1].healthStatus # Some("blocked") }

\* Some pending promise of some load settles.
Settles ==
    \/ \E i \in 1..Len(loads), res \in FetchOutcomes : FetchSettles(i, res)
    \/ \E i \in 1..Len(loads), res \in JsonOutcomes : JsonSettles(i, res)

NextAnswered ==
    \/ OnMounted
    \/ Refetch
    \/ Settles

\* The Fetcher when every request is answered: a promise a load awaits does
\* not stay pending forever and the continuation of a settled promise is run.
\* What a response carries beyond its kind does not change which statements
\* run, so one response of each kind is drawn.
FairSpec == Init /\ [][NextAnswered]_vars /\ WF_vars(Settles)

\* ----------------------------------------------------------------- consumer
\* What a consumer may try to assign to the value of a returned ref.
Fields == {"items", "loading", "error"}
Assignable(field) ==
    CASE field = "items" -> { <<>> }
      [] field = "loading" -> { FALSE }
      [] field = "error" -> { None }

\* ReadonlyWrite with a bug: the refs are returned as they are, so the
\* assignment goes through.
RawRefWrite(st, field, v) == [st EXCEPT ![field] = v]

\* lines 233-239: items, loading and error are returned wrapped in readonly(),
\* which rejects an assignment and leaves the ref as it was.
ReadonlyWrite(st, field, v) == st

\* A consumer assigns v to the value of the returned ref named field.
ConsumerWrite(field, v) ==
    /\ Apply(ReadonlyWrite(Cur, field, v))
    /\ last' = [NoLast EXCEPT !.stage = "write"]
    /\ UNCHANGED <<loads, mounted, lastSuccess, prevResponse, call, arrays, sorted>>

\* The Fetcher with a consumer that also tries to write through what
\* useExecutionItems returned.
NextWithConsumer ==
    \/ Next
    \/ \E field \in Fields : \E v \in Assignable(field) : ConsumerWrite(field, v)

SpecWithConsumer == Init /\ [][NextWithConsumer]_vars

\* -------------------------------------------------- Status Classifier calls
\* The functions useHealthStatus returns, called on their own.
\* An ExecutionItem with all six fields.
WorkItem(m, o, p, h, w, k) ==
    [t |-> "object", moduleName |-> Some(m), owner |-> o, pm |-> p,
     healthStatus |-> Some(h), teamWorking |-> w, okrHierarchy |-> k]

WorkItems ==
    { WorkItem(m, o, p, h, w, k) :
        m \in {"Test Module", "Authentication Module"},
        o \in {"John Doe", "Alice Brown"},
        p \in {"Jane Smith", "Bob Wilson"},
        h \in {"on-track", "at-risk", "off-track"},
        w \in {"Squad 1", "Squad 2"},
        k \in {"O1 > KR1", "O2: Improve Reliability > KR2: 99.9% Uptime"} }

\* Strings a caller may hand to isValidStatus.
StatusStrings ==
    { "on-track", "at-risk", "off-track", "invalid", "", "blocked",
      "On Track", "At Risk", "Off Track", "at risk", "on_track", "off-track ",
      "ON-TRACK", "On-Track", "AT-RISK", "OFF-TRACK", "Off-Track" }

\* A call of a Status Classifier function touches nothing of the Fetcher.
FetcherUntouched ==
    UNCHANGED <<items, loading, error, loads, mounted, writes, lastSuccess,
                prevResponse, last>>

\* Nor anything of the sorting example.
SorterUntouched == UNCHANGED <<arrays, sorted>>

ClassifyStatusCall ==
    /\ \E item \in WorkItems :
          call' = Called("classifyStatus", item, classifyStatus(item), item)
    /\ FetcherUntouched
    /\ SorterUntouched

GetStatusConfigCall ==
    /\ \E status \in {"on-track", "at-risk", "off-track"} :
          call' = Called("getStatusConfig", status, getStatusConfig(status), status)
    /\ FetcherUntouched
    /\ SorterUntouched

IsValidStatusCall ==
    /\ \E value \in StatusStrings :
          call' = Called("isValidStatus", value, isValidStatus(value), value)
    /\ FetcherUntouched
    /\ SorterUntouched

GetAllStatusesCall ==
    /\ call' = Called("getAllStatuses", <<>>, getAllStatuses, <<>>)
    /\ FetcherUntouched
    /\ SorterUntouched

\* ------------------------------------------------------- badge formatting
\* The functions of the status formatting utilities.  Their argument is a
\* JavaScript value: undefined, null or whatever string reaches them.
BadgeInputs == { JsUndefined, JsNull } \cup { JsString(s) : s \in StatusStrings }

UnknownColors == [text |-> "#656b75", background |-> "#f3f3f3"]

\* getStatusLabel with a bug: the labels are taken from HEALTH_STATUS_CONFIG.
getStatusLabelFromConfig(status) ==
    IF Falsy(status) \/ status.s \notin DOMAIN HEALTH_STATUS_CONFIG THEN "Unknown"
    ELSE HEALTH_STATUS_CONFIG[status.s].label

\* lines 41-56
getStatusLabel(status) ==
    IF Falsy(status) THEN "Unknown"
    ELSE CASE status.s = "on-track" -> "On track"
           [] status.s = "at-risk" -> "At Risks"
           [] status.s = "off-track" -> "Off Track"
           [] OTHER -> "Unknown"

\* getStatusColor with a bug: the colors of at-risk and off-track are
\* exchanged.
getStatusColorExchanged(status) ==
    IF Falsy(status) THEN UnknownColors
    ELSE CASE status.s = "on-track" -> [text |-> "#0ed183", background |-> "#eefbf2"]
           [] status.s = "at-risk" -> [text |-> "#ffab26", background |-> "#fff7ed"]
           [] status.s = "off-track" -> [text |-> "#ff514e", background |-> "#ffefed"]
           [] OTHER -> UnknownColors

\* lines 91-121
getStatusColor(status) ==
    IF Falsy(status) THEN UnknownColors
    ELSE CASE status.s = "on-track" -> [text |-> "#0ed183", background |-> "#eefbf2"]
           [] status.s = "at-risk" -> [text |-> "#ff514e", background |-> "#ffefed"]
           [] status.s = "off-track" -> [text |-> "#ffab26", background |-> "#fff7ed"]
           [] OTHER -> UnknownColors

\* lines 151-157: the template literal takes any string that is not falsy.
getStatusClassName(status) ==
    IF Falsy(status) THEN "health-status-unknown"
    ELSE "health-status-" \o status.s

\* The helper of the type tests: the text color by a switch of its own.
getHealthStatusColor(healthStatus) ==
    CASE healthStatus = "on-track" -> "#0ed183"
      [] healthStatus = "at-risk" -> "#ff514e"
      [] healthStatus = "off-track" -> "#ffab26"
      [] OTHER -> healthStatus

\* The three badge functions called on the same value.
FormatStatusCall ==
    /\ \E status \in BadgeInputs :
          call' = Called("formatStatus", status,
                         [label |-> getStatusLabel(status),
                          colors |-> getStatusColor(status),
                          className |-> getStatusClassName(status)],
                         status)
    /\ FetcherUntouched
    /\ SorterUntouched

NextClassifier ==
    \/ ClassifyStatusCall
    \/ GetStatusConfigCall
    \/ IsValidStatusCall
    \/ GetAllStatusesCall
    \/ FormatStatusCall

SpecClassifier == Init /\ [][NextClassifier]_vars

\* --------------------------------------------------------------- pagination
\* The pagination helpers, called on their own.  Of a response they read
\* total, page, limit (None when undefined) and the length of items (n).
Min(a, b) == IF a <= b THEN a ELSE b

Responses ==
    { [n |-> n, total |-> total, page |-> page, limit |-> limit] :
        n \in 0..MaxLimit, total \in 0..MaxTotal,
        page \in {None} \cup { Some(k) : k \in 1..MaxPage },
        limit \in {None} \cup { Some(k) : k \in 1..MaxLimit } }

\* A page holds at most limit items and no more than there are in all.
PageResponses ==
    { r \in Responses :
        /\ r.n <= r.total
        /\ r.limit # None => r.n <= r.limit[1] }

\* Math.ceil(a / b) for integers a >= 0, b >= 1.
CeilDiv(a, b) == (a + b - 1) \div b

isPaginatedResponse(response) == response.page # None /\ response.limit # None

getTotalPages(response) ==
    IF ~isPaginatedResponse(response) THEN 1
    ELSE CeilDiv(response.total, response.limit[1])

hasNextPage(response) ==
    IF ~isPaginatedResponse(response) THEN FALSE
    ELSE response.page[1] < getTotalPages(response)

\* hasPreviousPage with a bug: the page number is compared without asking
\* whether the response is paginated.
hasPreviousPageUnguarded(response) ==
    response.page # None /\ response.page[1] > 1

hasPreviousPage(response) ==
    IF ~isPaginatedResponse(response) THEN FALSE
    ELSE response.page[1] > 1

\* The summary text, with the two indices it shows (0 when it shows none).
getPaginationSummary(response) ==
    IF ~isPaginatedResponse(response)
    THEN [text |-> "Showing all " \o ToString(response.total) \o " items",
          startIndex |-> 0, endIndex |-> 0]
    ELSE LET startIndex == (response.page[1] - 1) * response.limit[1] + 1
             endIndex == Min(startIndex + response.n - 1, response.total)
             totalPages == getTotalPages(response)
         IN  [text |-> "Showing " \o ToString(startIndex) \o "-" \o ToString(endIndex)
                       \o " of " \o ToString(response.total) \o " items (Page "
                       \o ToString(response.page[1]) \o " of "
                       \o ToString(totalPages) \o ")",
              startIndex |-> startIndex, endIndex |-> endIndex]

IsPaginatedResponseCall ==
    /\ \E r \in PageResponses :
          call' = Called("isPaginatedResponse", r, isPaginatedResponse(r), r)
    /\ FetcherUntouched
    /\ SorterUntouched

GetTotalPagesCall ==
    /\ \E r \in PageResponses : call' = Called("getTotalPages", r, getTotalPages(r), r)
    /\ FetcherUntouched
    /\ SorterUntouched

HasNextPageCall ==
    /\ \E r \in PageResponses : call' = Called("hasNextPage", r, hasNextPage(r), r)
    /\ FetcherUntouched
    /\ SorterUntouched

HasPreviousPageCall ==
    /\ \E r \in PageResponses : call' = Called("hasPreviousPage", r, hasPreviousPage(r), r)
    /\ FetcherUntouched
    /\ SorterUntouched

GetPaginationSummaryCall ==
    /\ \E r \in PageResponses :
          call' = Called("getPaginationSummary", r, getPaginationSummary(r), r)
    /\ FetcherUntouched
    /\ SorterUntouched

NextPagination ==
    \/ IsPaginatedResponseCall
    \/ GetTotalPagesCall
    \/ HasNextPageCall
    \/ HasPreviousPageCall
    \/ GetPaginationSummaryCall

SpecPagination == Init /\ [][NextPagination]_vars

\* ------------------------------------------------------------------ sorting
\* The sorting example of TableSortConfig: an array of ExecutionItems is
\* declared and sortExecutionItems is called on it, twice.
Sorts == 2

Columns ==
    {"moduleName", "owner", "pm", "healthStatus", "teamWorking", "okrHierarchy"}
SortConfigs == [column : Columns, direction : {"asc", "desc"}]

\* The two items of the example and a third that ties with them on some
\* columns and differs in case and in digits on others.
SortItems ==
    { WorkItem("Module B", "John Doe", "Jane Smith", "on-track", "Squad 1",
               "O1 > KR1 > Initiative A"),
      WorkItem("Module A", "Alice Johnson", "Bob Williams", "at-risk", "Squad 2",
               "O1 > KR2 > Initiative B"),
      WorkItem("Module A", "John Doe", "jane smith", "off-track", "Squad 10",
               "O1 > KR1 > Initiative A") }
SortInputs == SeqsUpTo(SortItems, MaxRows)

\* a[config.column]
Column(a, column) ==
    CASE column = "moduleName" -> a.moduleName[1]
      [] column = "owner" -> a.owner
      [] column = "pm" -> a.pm
      [] column = "healthStatus" -> a.healthStatus[1]
      [] column = "teamWorking" -> a.teamWorking
      [] column = "okrHierarchy" -> a.okrHierarchy

\* The characters of the column values, in the order of their code units.
CodeUnits == " -0123456789>ABCDEFGHIJKLMNOPQRSTUVWXYZabcdefghijklmnopqrstuvwxyz"
CodeUnitOf ==
    [c \in { SubSeq(CodeUnits, k, k) : k \in 1..Len(CodeUnits) } |->
        CHOOSE k \in 1..Len(CodeUnits) : SubSeq(CodeUnits, k, k) = c]

\* a < b on strings: by the first code unit that differs, a proper prefix first.
StringLess(a, b) ==
    LET differ == { k \in 1..Min(Len(a), Len(b)) : SubSeq(a, k, k) # SubSeq(b, k, k) }
    IN  IF differ = {} THEN Len(a) < Len(b)
        ELSE LET k == CHOOSE k \in differ : \A j \in differ : k <= j
             IN  CodeUnitOf[SubSeq(a, k, k)] < CodeUnitOf[SubSeq(b, k, k)]

\* The comparator handed to items.sort.
Compare(a, b, config) ==
    LET aValue == Column(a, config.column)
        bValue == Column(b, config.column)
        comparison == IF StringLess(aValue, bValue) THEN -1
                      ELSE IF StringLess(bValue, aValue) THEN 1 ELSE 0
    IN  IF config.direction = "asc" THEN comparison ELSE 0 - comparison

\* Array.prototype.sort under the comparator: the elements in comparator
\* order, elements that compare equal in the order they had.
RECURSIVE ArraySort(_, _)
ArraySort(seq, config) ==
    IF seq = <<>> THEN <<>>
    ELSE LET front == ArraySort(SubSeq(seq, 1, Len(seq) - 1), config)
             x == seq[Len(seq)]
             k == Cardinality({ j \in 1..Len(front) : Compare(front[j], x, config) <= 0 })
         IN  SubSeq(front, 1, k) \o <<x>> \o SubSeq(front, k + 1, Len(front))

\* sortExecutionItems with a bug: a copy is sorted and returned.
sortExecutionItemsOnCopy(heap, ref, config) ==
    [heap |-> Append(heap, ArraySort(heap[ref], config)), result |-> Len(heap) + 1]

\* sortExecutionItems(items, config), items being the array at ref: the
\* arrays after the call and the reference returned.
sortExecutionItems(heap, ref, config) ==
    [heap |-> [heap EXCEPT ![ref] = ArraySort(heap[ref], config)], result |-> ref]

\* const sampleItems = [...]
DeclareSampleItems ==
    /\ arrays = <<>>
    /\ \E a \in SortInputs : arrays' = <<a>>
    /\ UNCHANGED <<sorted, call>>
    /\ FetcherUntouched

\* const sortedBy... = sortExecutionItems(sampleItems, config): the result is
\* held as a reference, with what it read when it was returned.
SortCall ==
    /\ arrays # <<>>
    /\ Len(sorted) < Sorts
    /\ \E config \in SortConfigs : \E r \in {sortExecutionItems(arrays, 1, config)} :
          /\ arrays' = r.heap
          /\ sorted' = Append(sorted, [config |-> config, ref |-> r.result,
                                       returned |-> r.heap[r.result]])
          /\ call' = Called("sortExecutionItems",
                            [ref |-> 1, items |-> arrays[1], config |-> config],
                            r.result, r.heap[1])
    /\ FetcherUntouched

NextSort ==
    \/ DeclareSampleItems
    \/ SortCall

SpecSort == Init /\ [][NextSort]_vars

\* ------------------------------------------------------------------- claims
Range(f) == { f[k] : k \in 1..Len(f) }
Contains(s, sub) ==
    \E k \in 1..(Len(s) - Len(sub) + 1) : SubSeq(s, k, k + Len(sub) - 1) = sub

AllSettled == loads # <<>> /\ \A i \in 1..Len(loads) : Settled(loads[i])

\* C1: when a load completes having failed, at whatever step, error holds the
\* message of the failure that was thrown and items is empty, whatever items
\* held before.
C1_FailedLoadSetsErrorAndClearsItems ==
    (last.done # 0 /\ last.thrown) =>
        /\ error # None
        /\ last.err.isError => error = Some(last.err.message)
        /\ items = <<>>

\* C1 witness: a refetch started after a load that had put items on display
\* failed, and the items are gone.
C1_Witness ==
    /\ Len(loads) = 2 /\ last.done = 2 /\ last.thrown
    /\ loads[2].by = "refetch" /\ ~loads[2].overlapped
    /\ lastSuccess # <<>>
    /\ items = <<>> /\ error # None

\* C2: no load's promise is ever rejected; a load whose try body threw ends
\* fulfilled, with the failure in error.
C2_CompletionNeverRejects ==
    /\ \A i \in 1..Len(loads) : loads[i].pc # "rejected"
    /\ (last.done # 0 /\ last.thrown) =>
           loads[last.done].pc = "fulfilled" /\ error # None

\* C2 witness: a refetch failed and its promise is fulfilled.
C2_Witness ==
    /\ last.done # 0 /\ last.thrown
    /\ loads[last.done].by = "refetch"
    /\ loads[last.done].pc = "fulfilled"
    /\ error # None

\* C3 (as claimed, taken for the well-formed responses of the spec, whose
\* items are all objects): when a load completes on a 2xx response whose
\* body has an items sequence of N elements, items has N elements, loading
\* is false and error is absent.
C3_SuccessfulLoadShowsAllItems ==
    (last.done # 0 /\ last.stage = "json" /\ ~last.rejected /\ last.allObjects) =>
        /\ Len(items) = last.n
        /\ loading = FALSE
        /\ error = None

\* C4: items is always either empty or the complete normalized items of the
\* most recently completed successful load.
C4_ItemsEmptyOrLastSuccess ==
    items = <<>> \/ items = lastSuccess

\* C4 witness: a second load completed successfully and replaced the list
\* with its two normalized items.
C4_Witness ==
    /\ last.done = 2 /\ ~last.thrown /\ last.n = 2
    /\ Len(items) = 2 /\ items[1] # items[2]
    /\ items = lastSuccess

\* C5 (as claimed): once overlapping loads have all resolved, the refs equal
\* what the load that resolved last would have produced alone.
C5_LastResolvingLoadDecides ==
    (last.done # 0 /\ AllSettled /\ loads[last.done].overlapped) =>
        Refs(Cur) = last.alone

\* C6 (as claimed): loading reads true for as long as any load is in flight.
C6_LoadingWhileInFlight ==
    AnyInFlight => loading = TRUE

\* C7: the step that completes a load writes loading = false as its last
\* write, after any write to items or error, and leaves loading false; no
\* other step writes loading = false.
C7_LoadingFalseIsFinalWrite ==
    /\ last.done # 0 =>
           /\ loading = FALSE
           /\ writes # <<>>
           /\ writes[Len(writes)] = "loading=false"
    /\ \A k \in 1..Len(writes) : writes[k] = "loading=false" => k = Len(writes)
    /\ "loading=false" \in Range(writes) => last.done # 0

\* C7 witness: a failing load wrote error, then items, then loading = false.
C7_Witness ==
    /\ last.done # 0 /\ last.thrown
    /\ writes = <<"error", "items", "loading=false">>
    /\ loading = FALSE

C9_HttpErrorReported ==
    (last.stage = "fetch" /\ ~last.rejected /\ last.status \notin 200..299) =>
        /\ last.done # 0
        /\ items = <<>>
        /\ loading = FALSE
        /\ error # None
        /\ Contains(error[1], ToString(last.status))
        /\ Contains(error[1], last.statusText)
        /\ "json" \notin Range(writes)

\* C9 witness: a 404 Not Found arrived while items were on display.
C9_Witness ==
    /\ last.done # 0 /\ last.stage = "fetch" /\ ~last.rejected
    /\ last.status = 404 /\ last.statusText = "Not Found"
    /\ lastSuccess # <<>> /\ ~loads[last.done].overlapped
    /\ error = Some("Failed to fetch execution items: 404 Not Found")

\* C10 (as claimed): a 2xx response whose body parses but has no items
\* sequence completes the load with the validation message in error and
\* items empty.
C10_InvalidBodyGivesValidationMessage ==
    (last.done # 0 /\ last.stage = "json" /\ ~last.rejected /\ ~last.hasSeq) =>
        /\ error = Some(ValidationError.message)
        /\ items = <<>>

MountLoads == { i \in 1..Len(loads) : loads[i].by = "mount" }

Succeeded == last.done # 0 /\ last.stage = "json" /\ ~last.thrown

\* C13: on a successful load items has the length and order of the response's
\* items, element i being response element i with healthStatus replaced by
\* classifyStatus(element i) and its other fields unchanged; classifyStatus is
\* called on every element exactly once.
C13_ItemsAreResponseClassified ==
    Succeeded =>
        /\ Len(items) = Len(last.elems)
        /\ \A i \in 1..Len(items) :
              /\ items[i].moduleName = last.elems[i].moduleName
              /\ items[i].healthStatus = classifyStatus(last.elems[i]).val
        /\ SelectSeq(writes, LAMBDA w : Contains(w, "classifyStatus"))
              = [k \in 1..Len(last.elems) |-> "classifyStatus " \o ToString(k)]

C13_Witness ==
    /\ Succeeded
    /\ Len(last.elems) = 2
    /\ last.elems[1].healthStatus # last.elems[2].healthStatus
    /\ items[1].moduleName = Some("Authentication Module")
    /\ items[2].moduleName = Some("Legacy Module")
    /\ writes = <<"classifyStatus 1", "classifyStatus 2", "items", "loading=false">>

\* Whether an element's healthStatus is one of the three enumeration values.
HasValidStatus(item) == item.healthStatus # None /\ isValidStatus(item.healthStatus[1])

\* C14 as claimed: after a successful load every element of items has a
\* healthStatus among on-track, at-risk and off-track, whatever the response.
C14_EveryStatusInEnumeration ==
    Succeeded => \A i \in 1..Len(items) : HasValidStatus(items[i])

\* C14, amended: after a successful load element i of items carries the
\* healthStatus response element i carried, so it is one of the three values
\* exactly when the response's was: the Fetcher does not validate it.
C14_StatusValidIffResponseValid ==
    Succeeded =>
        \A i \in 1..Len(items) :
            /\ items[i].healthStatus = last.elems[i].healthStatus
            /\ HasValidStatus(items[i]) <=> HasValidStatus(last.elems[i])

C14_Witness ==
    /\ Succeeded
    /\ Len(items) = 2
    /\ HasValidStatus(items[1])
    /\ items[2].healthStatus = Some("blocked")
    /\ ~HasValidStatus(last.elems[2])

\* C15: two consecutive non-overlapping successful loads that receive the same
\* response leave the same items: the second one's completion changes neither
\* the content nor the order of items.
C15_SameResponseSameItems ==
    [][last'.repeat => items' = items]_vars

C15_Witness ==
    /\ last.repeat
    /\ last.done = 2
    /\ Len(items) = 2
    /\ items[1] # items[2]
    /\ items = lastSuccess

\* The URL the claim names for an environment: the base URL, nothing when it
\* is unset, followed by the endpoint, '/api/execution-items' when that is
\* unset or empty.
ExpectedUrl(e) ==
    (IF e.baseUrl = None THEN "" ELSE e.baseUrl[1])
    \o (IF e.endpoint \in {None, Some("")} THEN "/api/execution-items" ELSE e.endpoint[1])

\* C16: every load issues exactly one HTTP GET, in its first step, to the URL
\* built from the environment as it is when the load starts; no later step of
\* a load, failed or not, issues a request.
C16_OneGetToConfiguredUrl ==
    /\ \A i \in 1..Len(loads) : loads[i].requests = 1
    /\ last.stage = "start" =>
          /\ last.method = "GET"
          /\ last.url = Some(ExpectedUrl(last.env))
          /\ Requested([writes |-> writes]) = 1
    /\ last.stage \in {"fetch", "json"} => Requested([writes |-> writes]) = 0

C16_Witness ==
    /\ Len(loads) = 2
    /\ loads[1].pc = "fulfilled"
    /\ lastSuccess # <<>>
    /\ items = lastSuccess
    /\ last.stage = "start"
    /\ last.env = [baseUrl |-> None, endpoint |-> Some("/api/v1/execution-items")]
    /\ last.url = Some("/api/v1/execution-items")
    /\ loads[2].requests = 1

\* A step of a load: one is started, or one moves on or completes.
LoadStep ==
    \/ Len(loads') > Len(loads)
    \/ \E i \in 1..Len(loads) : loads'[i].pc # loads[i].pc

C18_ClassifyReturnsItemStatus ==
    call.fn = "classifyStatus" =>
        /\ ~call.result.thrown
        /\ call.result.val = call.arg.healthStatus
        /\ call.result.val \in {Some("on-track"), Some("at-risk"), Some("off-track")}
        /\ call.argAfter = call.arg

C18_Witness ==
    /\ call.fn = "classifyStatus"
    /\ call.arg.healthStatus = Some("at-risk")
    /\ call.arg.teamWorking = "Squad 2"
    /\ call.result.val = Some("at-risk")

\* C19: getStatusConfig is defined for exactly the three enumeration values
\* and returns on-track -> (On Track, #0ed183, #eefbf2, success), at-risk ->
\* (At Risk, #ff514e, #ffefed, error), off-track -> (Off Track, #ffab26,
\* #fff7ed, warning): four fields each, the three records pairwise distinct.
C19_StatusConfigTable ==
    /\ DOMAIN HEALTH_STATUS_CONFIG = {"on-track", "at-risk", "off-track"}
    /\ \A s \in DOMAIN HEALTH_STATUS_CONFIG :
          DOMAIN getStatusConfig(s) = {"label", "color", "backgroundColor", "severity"}
    /\ \A s1, s2 \in DOMAIN HEALTH_STATUS_CONFIG :
          s1 # s2 => getStatusConfig(s1) # getStatusConfig(s2)
    /\ call.fn = "getStatusConfig" =>
          LET c == call.result
              row == <<c.label, c.color, c.backgroundColor, c.severity>>
          IN  /\ call.arg = "on-track" => row = <<"On Track", "#0ed183", "#eefbf2", "success">>
              /\ call.arg = "at-risk" => row = <<"At Risk", "#ff514e", "#ffefed", "error">>
              /\ call.arg = "off-track" => row = <<"Off Track", "#ffab26", "#fff7ed", "warning">>

C19_Witness ==
    /\ call.fn = "getStatusConfig"
    /\ call.arg = "off-track"
    /\ call.result.color = "#ffab26"
    /\ call.result.severity = "warning"

\* C20: isValidStatus(v) is true exactly when v is one of the literal strings
\* on-track, at-risk, off-track (case and punctuation count, the empty string
\* is not one); these are the values getAllStatuses returns, in that order,
\* and the keys of HEALTH_STATUS_CONFIG.
C20_ValidStatusesAreTheEnumeration ==
    /\ call.fn = "isValidStatus" =>
          (call.result <=> call.arg \in {"on-track", "at-risk", "off-track"})
    /\ call.fn = "getAllStatuses" =>
          call.result = <<"on-track", "at-risk", "off-track">>
    /\ { v \in StatusStrings : isValidStatus(v) } = Range(getAllStatuses)
    /\ \A v \in StatusStrings : isValidHealthStatus(v) <=> isValidStatus(v)
    /\ Range(getAllStatuses) = DOMAIN HEALTH_STATUS_CONFIG

C20_Witness ==
    /\ call.fn = "isValidStatus"
    /\ call.arg = "ON-TRACK"
    /\ call.result = FALSE

\* The argument of the last badge call is the enumeration value s.
FormattedStatus(s) == call.fn = "formatStatus" /\ call.arg = JsString(s)
FormattedNothing == call.fn = "formatStatus" /\ call.arg \in {JsUndefined, JsNull}

\* C21: the badge functions map on-track, at-risk, off-track to the labels
\* On track, At Risks, Off Track, to the colors #0ed183/#eefbf2,
\* #ff514e/#ffefed, #ffab26/#fff7ed and to the class names
\* health-status-<status>; for undefined and for null each gives the unknown
\* fallback (Unknown, #656b75/#f3f3f3, health-status-unknown).
C21_BadgeTables ==
    LET r == call.result
        row == <<r.label, r.colors.text, r.colors.background, r.className>>
    IN  /\ FormattedStatus("on-track") =>
              row = <<"On track", "#0ed183", "#eefbf2", "health-status-on-track">>
        /\ FormattedStatus("at-risk") =>
              row = <<"At Risks", "#ff514e", "#ffefed", "health-status-at-risk">>
        /\ FormattedStatus("off-track") =>
              row = <<"Off Track", "#ffab26", "#fff7ed", "health-status-off-track">>
        /\ FormattedNothing =>
              row = <<"Unknown", "#656b75", "#f3f3f3", "health-status-unknown">>

C21_Witness ==
    /\ FormattedNothing
    /\ call.arg = JsNull
    /\ call.result.label = "Unknown"
    /\ call.result.className = "health-status-unknown"

\* The last call was of pagination helper fn.
Paged(fn) == call.fn = fn
PagedAny ==
    call.fn \in {"isPaginatedResponse", "getTotalPages", "hasNextPage",
                 "hasPreviousPage", "getPaginationSummary"}
BothPresent == call.arg.page # None /\ call.arg.limit # None

\* C22: a response is paginated exactly when both page and limit are present;
\* when either is absent every helper gives its not-paginated answer: 1 page,
\* no next page, no previous page, 'Showing all <total> items'.
C22_PaginatedOnlyWithPageAndLimit ==
    /\ Paged("isPaginatedResponse") => (call.result <=> BothPresent)
    /\ (Paged("getTotalPages") /\ ~BothPresent) => call.result = 1
    /\ (Paged("hasNextPage") /\ ~BothPresent) => call.result = FALSE
    /\ (Paged("hasPreviousPage") /\ ~BothPresent) => call.result = FALSE
    /\ (Paged("getPaginationSummary") /\ ~BothPresent) =>
          call.result.text = "Showing all " \o ToString(call.arg.total) \o " items"

C22_Witness ==
    /\ Paged("hasPreviousPage")
    /\ call.arg.page = Some(2)
    /\ call.arg.limit = None
    /\ call.arg.total = 4
    /\ call.result = FALSE

\* C29 as claimed: for a paginated response with limit >= 1, getTotalPages is
\* ceil(total / limit), hasNextPage holds exactly when page < ceil(total /
\* limit), hasPreviousPage exactly when page > 1, and the summary shows a
\* range startIndex..endIndex with startIndex = (page - 1) * limit + 1 and
\* startIndex <= endIndex <= total.
C29_PaginationNumbers ==
    (PagedAny /\ BothPresent /\ call.arg.limit[1] >= 1) =>
        LET total == call.arg.total
            page == call.arg.page[1]
            limit == call.arg.limit[1]
            \* the least k with k * limit >= total
            ceil == CHOOSE k \in 0..total : k * limit >= total /\ (k = 0 \/ (k - 1) * limit < total)
        IN  /\ Paged("getTotalPages") => call.result = ceil
            /\ Paged("hasNextPage") => (call.result <=> page < ceil)
            /\ Paged("hasPreviousPage") => (call.result <=> page > 1)
            /\ Paged("getPaginationSummary") =>
                  /\ call.result.startIndex = (page - 1) * limit + 1
                  /\ call.result.startIndex <= call.result.endIndex
                  /\ call.result.endIndex <= total

\* C23 as claimed: in every reachable state, whatever the interleaving of
\* overlapping loads, a present error implies that items is empty.
C23_ErrorImpliesNoItems == error # None => items = <<>>

\* C24: whatever the two configuration variables hold (a string, the empty
\* string, or nothing), the URL getApiConfig resolves is not empty, an unset or
\* empty endpoint falling back to '/api/execution-items'; so no load takes the
\* configuration-error branch and every load issues a request.
C24_ConfigurationErrorNeverTaken ==
    /\ \A e \in Envs :
          /\ getApiConfig(e).fullUrl # ""
          /\ e.endpoint \in {None, Some("")} =>
                getApiConfig(e).endpoint = "/api/execution-items"
    /\ last.stage # "config"
    /\ error # Some(ConfigError.message)
    /\ last.stage = "start" =>
          /\ last.url # None
          /\ last.url # Some("")
          /\ loads[Len(loads)].pc = "awaitFetch"
          /\ "fetch" \in Range(writes)
    /\ \A i \in 1..Len(loads) : loads[i].requests >= 1

C24_Witness ==
    /\ last.stage = "start"
    /\ last.env = [baseUrl |-> Some(""), endpoint |-> Some("")]
    /\ last.url = Some("/api/execution-items")
    /\ loads[Len(loads)].pc = "awaitFetch"
    /\ loads[Len(loads)].requests = 1

C26_TablesAgreeOnColors ==
    \A s \in {"on-track", "at-risk", "off-track"} :
        FormattedStatus(s) =>
            /\ call.result.colors.text = HEALTH_STATUS_CONFIG[s].color
            /\ call.result.colors.text = getHealthStatusColor(s)
            /\ call.result.colors.background = HEALTH_STATUS_CONFIG[s].backgroundColor
            /\ (call.result.label = HEALTH_STATUS_CONFIG[s].label) <=> (s = "off-track")

C26_Witness ==
    /\ FormattedStatus("at-risk")
    /\ call.result.label = "At Risks"
    /\ HEALTH_STATUS_CONFIG["at-risk"].label = "At Risk"
    /\ call.result.colors.text = "#ff514e"

\* C27 as claimed: on every value that reaches them (the three statuses,
\* undefined, null, the empty string, any other string) the badge functions
\* agree on what is unknown: the label is Unknown exactly when the colors are
\* the gray fallback, exactly when the class name is health-status-unknown.
C27_BadgeFunctionsAgreeOnUnknown ==
    call.fn = "formatStatus" =>
        /\ (call.result.label = "Unknown") <=> (call.result.colors = UnknownColors)
        /\ (call.result.label = "Unknown") <=> (call.result.className = "health-status-unknown")

ColumnOf(seq, config) == [k \in 1..Len(seq) |-> Column(seq[k], config.column)]
\* seq holds each item as many times as other does.
IsPermutation(seq, other) ==
    /\ Len(seq) = Len(other)
    /\ \A x \in SortItems :
          Cardinality({ k \in 1..Len(seq) : seq[k] = x }) =
          Cardinality({ k \in 1..Len(other) : other[k] = x })
\* seq is in the order config asks for.
Ordered(seq, config) ==
    \A i, j \in 1..Len(seq) :
        i < j =>
            IF config.direction = "asc"
            THEN ~StringLess(Column(seq[j], config.column), Column(seq[i], config.column))
            ELSE ~StringLess(Column(seq[i], config.column), Column(seq[j], config.column))

\* C30: sortExecutionItems returns a permutation of its input that is
\* non-decreasing in the configured column for asc and non-increasing for
\* desc, for each of the six columns; it sorts the array it was given in place
\* and returns that array, so every result held from an earlier call is the
\* same array and reads as the last call left it.
C30_SortsInPlace ==
    call.fn = "sortExecutionItems" =>
        /\ call.result = call.arg.ref
        /\ arrays[call.result] = call.argAfter
        /\ IsPermutation(call.argAfter, call.arg.items)
        /\ Ordered(call.argAfter, call.arg.config)
        /\ Len(arrays) = 1
        /\ \A k \in 1..Len(sorted) :
              /\ sorted[k].ref = call.arg.ref
              /\ arrays[sorted[k].ref] = call.argAfter

\* C30 witness: a second sort, by pm descending, reordered three items, and
\* the result of the first sort, returned in ascending order of moduleName,
\* no longer reads as it was returned nor in that order.
C30_Witness ==
    /\ call.fn = "sortExecutionItems"
    /\ Len(sorted) = 2
    /\ sorted[1].config = [column |-> "moduleName", direction |-> "asc"]
    /\ sorted[2].config = [column |-> "pm", direction |-> "desc"]
    /\ Len(call.argAfter) = 3
    /\ call.argAfter # call.arg.items
    /\ arrays[sorted[1].ref] # sorted[1].returned
    /\ ~Ordered(arrays[sorted[1].ref], sorted[1].config)
    /\ ColumnOf(call.argAfter, call.arg.config) = <<"jane smith", "Jane Smith", "Bob Williams">>

====
